---- MODULE Spec2Model ----
(***************************************************************************)
(* StorageAPI (src/StorageAPI.ts): a wrapper over the browser's            *)
(* localStorage / sessionStorage that adds an optional expiration          *)
(* timestamp, and SaveUserSession, which writes five session fields        *)
(* through it.                                                             *)
(*                                                                         *)
(* The two backends are maps from keys to stored text.  Text is modelled   *)
(* as the sequence of JSON tokens it consists of; JSON.stringify produces  *)
(* such a sequence from a JavaScript value and JSON.parse is a recursive   *)
(* descent parser over it.  The empty sequence is the empty string.        *)
(***************************************************************************)
EXTENDS Integers, Sequences, FiniteSets, TLC

(***************************************************************************)
(* JavaScript values.                                                      *)
(***************************************************************************)
Num(n) == [t |-> "number", n |-> n]
Str(s) == [t |-> "string", s |-> s]
Bool(b) == [t |-> "boolean", b |-> b]
Null == [t |-> "null"]
Undefined == [t |-> "undefined"]
Arr(a) == [t |-> "array", a |-> a]
\* an object is the sequence of its own properties, in insertion order
Obj(m) == [t |-> "object", m |-> m]
Member(k, v) == [k |-> k, v |-> v]

(***************************************************************************)
(* Tokens of a JSON text.                                                  *)
(***************************************************************************)
Punct(c) == [k |-> "punct", s |-> c, n |-> 0]
NumTok(n) == [k |-> "number", s |-> "", n |-> n]
StrTok(s) == [k |-> "string", s |-> s, n |-> 0]
\* a bare word: true, false, null, or anything else (then not JSON)
Word(w) == [k |-> "word", s |-> w, n |-> 0]

\* the value of property `name` in the member sequence m, or undefined
RECURSIVE Lookup(_, _)
Lookup(m, name) ==
    IF m = <<>> THEN Undefined
    ELSE IF m[Len(m)].k = name THEN m[Len(m)].v
    ELSE Lookup(SubSeq(m, 1, Len(m) - 1), name)

HasMember(m, name) == \E i \in 1..Len(m) : m[i].k = name

\* assignment obj[name] = v as JSON.parse performs it for each member read
SetMember(m, name, v) ==
    IF HasMember(m, name)
    THEN [i \in 1..Len(m) |-> IF m[i].k = name THEN Member(name, v) ELSE m[i]]
    ELSE Append(m, Member(name, v))

(***************************************************************************)
(* JSON.stringify(v).  Yields Undefined for undefined; inside an array     *)
(* undefined becomes null, inside an object the property is left out.      *)
(***************************************************************************)
RECURSIVE Stringify(_), StringifyElems(_), StringifyMembers(_, _)
Stringify(v) ==
    CASE v.t = "number" -> <<NumTok(v.n)>>
      [] v.t = "string" -> <<StrTok(v.s)>>
      [] v.t = "boolean" -> <<Word(IF v.b THEN "true" ELSE "false")>>
      [] v.t = "null" -> <<Word("null")>>
      [] v.t = "array" -> <<Punct("[")>> \o StringifyElems(v.a) \o <<Punct("]")>>
      [] v.t = "object" -> <<Punct("{")>> \o StringifyMembers(v.m, TRUE) \o <<Punct("}")>>
      [] OTHER -> Undefined

StringifyElems(a) ==
    IF a = <<>> THEN <<>>
    ELSE LET e == IF Head(a).t = "undefined" THEN <<Word("null")>>
                  ELSE Stringify(Head(a))
         IN  IF Len(a) = 1 THEN e
             ELSE e \o <<Punct(",")>> \o StringifyElems(Tail(a))

StringifyMembers(m, first) ==
    IF m = <<>> THEN <<>>
    ELSE IF Head(m).v.t = "undefined" THEN StringifyMembers(Tail(m), first)
    ELSE (IF first THEN <<>> ELSE <<Punct(",")>>)
         \o <<StrTok(Head(m).k), Punct(":")>> \o Stringify(Head(m).v)
         \o StringifyMembers(Tail(m), FALSE)

(***************************************************************************)
(* JSON.parse(text): a parse result is [ok, v, i], i the next token.       *)
(***************************************************************************)
ParseOk(v, i) == [ok |-> TRUE, v |-> v, i |-> i]
ParseFail == [ok |-> FALSE, v |-> Null, i |-> 0]
IsPunct(toks, i, c) == i <= Len(toks) /\ toks[i].k = "punct" /\ toks[i].s = c

RECURSIVE ParseValue(_, _), ParseElems(_, _, _), ParseMembers(_, _, _)
ParseValue(toks, i) ==
    IF i > Len(toks) THEN ParseFail
    ELSE LET tk == toks[i] IN
      CASE tk.k = "number" -> ParseOk(Num(tk.n), i + 1)
        [] tk.k = "string" -> ParseOk(Str(tk.s), i + 1)
        [] tk.k = "word" ->
             IF tk.s = "true" THEN ParseOk(Bool(TRUE), i + 1)
             ELSE IF tk.s = "false" THEN ParseOk(Bool(FALSE), i + 1)
             ELSE IF tk.s = "null" THEN ParseOk(Null, i + 1)
             ELSE ParseFail
        [] tk.k = "punct" /\ tk.s = "[" ->
             IF IsPunct(toks, i + 1, "]") THEN ParseOk(Arr(<<>>), i + 2)
             ELSE ParseElems(toks, i + 1, <<>>)
        [] tk.k = "punct" /\ tk.s = "{" ->
             IF IsPunct(toks, i + 1, "}") THEN ParseOk(Obj(<<>>), i + 2)
             ELSE ParseMembers(toks, i + 1, <<>>)
        [] OTHER -> ParseFail

ParseElems(toks, i, acc) ==
    LET r == ParseValue(toks, i) IN
    IF ~r.ok THEN ParseFail
    ELSE IF IsPunct(toks, r.i, ",") THEN ParseElems(toks, r.i + 1, Append(acc, r.v))
    ELSE IF IsPunct(toks, r.i, "]") THEN ParseOk(Arr(Append(acc, r.v)), r.i + 1)
    ELSE ParseFail

ParseMembers(toks, i, acc) ==
    IF ~(i + 1 <= Len(toks) /\ toks[i].k = "string" /\ IsPunct(toks, i + 1, ":"))
    THEN ParseFail
    ELSE LET r == ParseValue(toks, i + 2) IN
         IF ~r.ok THEN ParseFail
         ELSE LET m == SetMember(acc, toks[i].s, r.v) IN
              IF IsPunct(toks, r.i, ",") THEN ParseMembers(toks, r.i + 1, m)
              ELSE IF IsPunct(toks, r.i, "}") THEN ParseOk(Obj(m), r.i + 1)
              ELSE ParseFail

\* JSON.parse: the whole text must be one value, otherwise a SyntaxError
JSONParse(text) ==
    LET r == ParseValue(text, 1) IN
    IF r.ok /\ r.i = Len(text) + 1 THEN ParseOk(r.v, r.i) ELSE ParseFail

(***************************************************************************)
(* The JavaScript operators GetItem applies to the decoded record.         *)
(***************************************************************************)
\* v.name for name in {"value", "expires"}; throws when v is null/undefined
CanReadProp(v) == v.t \notin {"null", "undefined"}
GetProp(v, name) == IF v.t = "object" THEN Lookup(v.m, name) ELSE Undefined
\* v?.name
GetPropOpt(v, name) == IF CanReadProp(v) THEN GetProp(v, name) ELSE Undefined

\* ToBoolean(v), the test an `if` applies
Truthy(v) ==
    CASE v.t = "number" -> v.n # 0
      [] v.t = "string" -> v.s # ""
      [] v.t = "boolean" -> v.b
      [] v.t \in {"null", "undefined"} -> FALSE
      [] OTHER -> TRUE

\* ToNumber(v) as [nan, n]; the strings of the model are not numerals
NaN == [nan |-> TRUE, n |-> 0]
Finite(n) == [nan |-> FALSE, n |-> n]
RECURSIVE ToNumber(_)
ToNumber(v) ==
    CASE v.t = "number" -> Finite(v.n)
      [] v.t = "string" -> IF v.s = "" THEN Finite(0) ELSE NaN
      [] v.t = "boolean" -> Finite(IF v.b THEN 1 ELSE 0)
      [] v.t = "null" -> Finite(0)
      [] v.t = "array" ->
           IF v.a = <<>> THEN Finite(0)
           ELSE IF Len(v.a) = 1 /\ v.a[1].t \in {"number", "string", "null", "undefined", "array"}
                THEN (IF v.a[1].t = "undefined" THEN Finite(0) ELSE ToNumber(v.a[1]))
                ELSE NaN
      [] OTHER -> NaN

\* t > v for a number t
GreaterThan(t, v) == LET n == ToNumber(v) IN ~n.nan /\ t > n.n

(***************************************************************************)
(* The Storage interface of the browser: a backend maps keys to texts.     *)
(***************************************************************************)
EmptyStore == [k \in {} |-> <<>>]
HasKey(store, key) == key \in DOMAIN store
\* storage.setItem(key, String(x)) for x the result of JSON.stringify
SetItemArg(v) == IF v.t = "undefined" THEN <<Word("undefined")>> ELSE Stringify(v)
SetItem(store, key, text) ==
    [k \in DOMAIN store \cup {key} |-> IF k = key THEN text ELSE store[k]]
\* a removeItem that also sweeps every other record carrying an expiration
RemoveItemSweep(store, key) ==
    LET kept == {k \in DOMAIN store \ {key} :
                   LET parsed == JSONParse(store[k]) IN
                   ~(parsed.ok /\ Truthy(GetPropOpt(parsed.v, "expires")))}
    IN  [k \in kept |-> store[k]]

RemoveItem(store, key) == [k \in DOMAIN store \ {key} |-> store[k]]

(***************************************************************************)
(* Bounds and input sets.                                                  *)
(***************************************************************************)
\* the clock runs from 1 to MaxTime milliseconds after the epoch
MaxTime == 3
\* expiresIn is drawn from 0..MaxExpiresIn
MaxExpiresIn == 1
\* a caller's creationDate lies at most MaxAge milliseconds in the past
MaxAge == 2
\* ... and at most MaxAhead milliseconds in the future
MaxAhead == 1

\* the clock of the session scenarios passes WeekExpiresIn up to MaxWeeks times
MaxWeeks == 1

Keys == {"x", "y"}
\* the save operations are exercised on these keys
SaveKeys == {"x"}
StorageTypes == {"local", "session"}

\* plain data handed to SaveItem
PlainValues ==
    { Num(7), Str("a"), Bool(TRUE), Null, Arr(<<Num(1)>>),
      Obj(<<Member("value", Num(7))>>),
      Obj(<<Member("value", Num(7)), Member("expires", Num(1))>>) }
\* values handed to SaveItemWithExpiration
ExpiringValues == { Num(42), Null }

\* an earlier page may have left a record under key "y"
LeftOverTexts ==
    { Stringify(Obj(<<Member("value", Num(7)), Member("expires", Num(-1))>>)) }
\* the user records handed to SaveUserSession
Users ==
    { [firstName |-> "Ada", lastName |-> "Lovelace", username |-> "ada", token |-> "tok123"],
      [firstName |-> "Alan", lastName |-> "Turing", username |-> "alan", token |-> "tok456"] }
\* the strings generateRandomToken may return
TokenPool ==
    { "aaaaaaaaaaaa", "bbbbbbbbbbbb",
      "cccccccccccccccccccccccccccccccc", "dddddddddddddddddddddddddddddddd" }
SessionKeys == {"name", "username", "token", "selector", "validator"}

InitialStores == {EmptyStore} \cup {("y" :> text) : text \in LeftOverTexts}
\* texts that JSON.parse rejects: the empty string, the word undefined, and a
\* record cut off after its first property name
MalformedTexts ==
    { <<>>, <<Word("undefined")>>, <<Punct("{"), StrTok("value")>> }
MalformedStores == {("y" :> text) : text \in MalformedTexts}

(***************************************************************************)
(* State.                                                                  *)
(***************************************************************************)
VARIABLES
    browser,            \* $app/environment's browser flag
    localStorage,       \* the durable backend: key -> text
    sessionStorage,     \* the session-scoped backend: key -> text
    now,                \* what new Date().getTime() returns
    DefaultExpiration,  \* the exported constant, built when the module loads
    api,                \* a StorageAPI instance: [storage |-> StorageType]
    last,               \* the most recent call, its arguments and outcome
    fresh,              \* the most recent save call, while no GetItem of its
                        \* key and no Clear has run since
    cleared,            \* keys a Clear removed and no save has written since
    reading             \* the GetItem that has read its text (line 89) and not
                        \* yet acted on it, while another context may run

vars == <<browser, localStorage, sessionStorage, now, DefaultExpiration, api,
          last, fresh, cleared, reading>>

\* 3600 * (24 * 7), the expiresIn of DefaultExpiration
WeekExpiresIn == 3600 * (24 * 7)

\* a constructor whose default is the session-scoped backend
ConstructorSessionDefault(storageType) ==
    [storage |-> IF storageType = "undefined" THEN "session" ELSE storageType]

\* constructor(storageType?): this.storage = storageType ?? "local"
Constructor(storageType) ==
    [storage |-> IF storageType = "undefined" THEN "local" ELSE storageType]

\* this.storage === "local" ? localStorage : sessionStorage
Backend(self) == IF self.storage = "local" THEN localStorage ELSE sessionStorage

\* a write that reaches both backends
WriteBothBackends(self, store) ==
    localStorage' = store /\ sessionStorage' = store

\* the backend of self becomes store, the other one is left alone
WriteBackend(self, store) ==
    IF self.storage = "local"
    THEN localStorage' = store /\ UNCHANGED sessionStorage
    ELSE sessionStorage' = store /\ UNCHANGED localStorage

NoCall == [op |-> "none"]
\* a save call and its arguments
SaveCall(op, self, key, value, creationDate, expiresIn) ==
    [op |-> op, storage |-> self.storage, key |-> key, value |-> value,
     creationDate |-> creationDate, expiresIn |-> expiresIn, at |-> now]
\* the keys a save call writes
KeysOf(call) == IF call.op = "SaveUserSession" THEN SessionKeys ELSE {call.key}
\* a call of GetItem, Contains or Clear: `after` is the save call to the same
\* key that was fresh when the call was made, `immediate` says that this save
\* was the call just before, `wasCleared` that the key had been removed by a
\* Clear and not saved since
ReadCall(op, self, key, ret, throws) ==
    [op |-> op, storage |-> self.storage, key |-> key, at |-> now,
     ret |-> ret, throws |-> throws,
     after |-> IF fresh # NoCall /\ key \in KeysOf(fresh) THEN fresh ELSE NoCall,
     immediate |-> fresh # NoCall /\ key \in KeysOf(fresh) /\ last = fresh,
     wasCleared |-> key \in cleared]

Init ==
    /\ browser \in BOOLEAN
    /\ localStorage \in InitialStores
    /\ sessionStorage \in InitialStores
    /\ now = 1
    /\ DefaultExpiration = [creationDate |-> now, expiresIn |-> WeekExpiresIn]
    /\ api \in {Constructor(st) : st \in {"undefined"} \cup StorageTypes}
    /\ last = NoCall
    /\ fresh = NoCall
    /\ cleared = {}
    /\ reading = NoCall

(***************************************************************************)
(* StorageAPI.SaveItemWithExpiration(key, item)                            *)
(***************************************************************************)
\* the record written: { value: item.value, expires: creationDate.getTime() + expiresIn }
ExpiringRecord(value, creationDate, expiresIn) ==
    Obj(<<Member("value", value), Member("expires", Num(creationDate + expiresIn))>>)

SaveItemWithExpirationStore(store, key, value, creationDate, expiresIn) ==
    IF ~browser THEN store
    ELSE SetItem(store, key, SetItemArg(ExpiringRecord(value, creationDate, expiresIn)))

SaveItemWithExpiration(self, key, value, creationDate, expiresIn) ==
    /\ WriteBackend(self, SaveItemWithExpirationStore(Backend(self), key, value,
                                                      creationDate, expiresIn))
    /\ last' = SaveCall("SaveItemWithExpiration", self, key, value, creationDate,
                        expiresIn)
    /\ fresh' = last'
    /\ cleared' = cleared \ {key}
    /\ UNCHANGED <<browser, now, DefaultExpiration, api, reading>>

(***************************************************************************)
(* StorageAPI.SaveItem(key, item)                                          *)
(***************************************************************************)
\* the text written for item = { value }: JSON.stringify(item.value)
SaveItemText(value) == SetItemArg(value)

\* a SaveItem without the guard of its first line
SaveItemUnguarded(store, key, value) == SetItem(store, key, SaveItemText(value))

SaveItemStore(store, key, value) ==
    IF ~browser THEN store ELSE SetItem(store, key, SaveItemText(value))

SaveItem(self, key, value) ==
    /\ WriteBackend(self, SaveItemStore(Backend(self), key, value))
    /\ last' = SaveCall("SaveItem", self, key, value, 0, 0)
    /\ fresh' = last'
    /\ cleared' = cleared \ {key}
    /\ UNCHANGED <<browser, now, DefaultExpiration, api, reading>>

(***************************************************************************)
(* StorageAPI.GetItem(key)                                                 *)
(***************************************************************************)
Return(v, store) == [ret |-> v, throws |-> "none", store |-> store]
Throw(e, store) == [ret |-> Undefined, throws |-> e, store |-> store]

\* the comparison the wrong way round
ExpiredReversed(item, t) ==
    LET expires == GetPropOpt(item, "expires") IN
    Truthy(expires) /\ ~GreaterThan(t, expires)

\* item?.expires is truthy and currentTime.getTime() > item.expires
Expired(item, t) ==
    LET expires == GetPropOpt(item, "expires") IN
    Truthy(expires) /\ GreaterThan(t, expires)

\* a GetItem that hands whatever getItem returned to JSON.parse, without the
\* test of the text read: JSON.parse(null) is null, and null.value throws
GetItemNoAbsentTest(store, key, t) ==
    IF ~browser THEN Return(Null, store)
    ELSE IF ~HasKey(store, key) THEN Throw("TypeError", store)
    ELSE LET parsed == JSONParse(store[key]) IN
         IF ~parsed.ok THEN Throw("SyntaxError", store)
         ELSE IF Expired(parsed.v, t) THEN Return(Null, RemoveItem(store, key))
         ELSE IF ~CanReadProp(parsed.v) THEN Throw("TypeError", store)
         ELSE Return(GetProp(parsed.v, "value"), store)

GetItemOutcome(store, key, t) ==
    IF ~browser THEN Return(Null, store)
    ELSE IF ~HasKey(store, key) \/ store[key] = <<>> THEN Return(Null, store)
    ELSE LET parsed == JSONParse(store[key]) IN
         IF ~parsed.ok THEN Throw("SyntaxError", store)
         ELSE IF Expired(parsed.v, t) THEN Return(Null, RemoveItem(store, key))
         ELSE IF ~CanReadProp(parsed.v) THEN Throw("TypeError", store)
         ELSE Return(GetProp(parsed.v, "value"), store)

\* a GetItem that reports an expired entry as "not found" but leaves it stored
GetItemKeepsEntry(self, key) ==
    LET out == GetItemOutcome(Backend(self), key, now) IN
    /\ last' = ReadCall("GetItem", self, key, out.ret, out.throws)
    /\ fresh' = IF fresh # NoCall /\ key \in KeysOf(fresh) THEN NoCall ELSE fresh
    /\ UNCHANGED <<browser, localStorage, sessionStorage, now, DefaultExpiration,
                   api, cleared, reading>>

GetItem(self, key) ==
    LET out == GetItemOutcome(Backend(self), key, now) IN
    /\ WriteBackend(self, out.store)
    /\ last' = ReadCall("GetItem", self, key, out.ret, out.throws)
    /\ fresh' = IF fresh # NoCall /\ key \in KeysOf(fresh) THEN NoCall ELSE fresh
    /\ UNCHANGED <<browser, now, DefaultExpiration, api, cleared, reading>>

(***************************************************************************)
(* StorageAPI.GetItem(key), as the two steps another execution context     *)
(* sharing the durable backend can come between.                           *)
(***************************************************************************)
\* what getItem(key) saw: the one entry under key, or nothing
Seen(store, key) == [k \in DOMAIN store \cap {key} |-> store[k]]

\* lines 86-89: past the guard, storage.getItem(key) has returned
GetItemRead(self, key) ==
    /\ browser
    /\ reading = NoCall
    /\ reading' = [storage |-> self.storage, key |-> key,
                   seen |-> Seen(Backend(self), key)]
    /\ UNCHANGED <<browser, localStorage, sessionStorage, now, DefaultExpiration,
                   api, last, fresh, cleared>>

\* a removal that first compares the entry with the text that was read
EvictIfUnchanged(store, key, seen) ==
    IF HasKey(store, key) /\ store[key] = seen[key] THEN RemoveItem(store, key) ELSE store

\* line 100: storage.removeItem(key), whatever the backend holds by now
Evict(store, key, seen) == RemoveItem(store, key)

\* lines 91-105: the text read is tested, parsed and compared with the clock;
\* an expired record makes the call remove key from the backend as it is now
GetItemFinish(self) ==
    /\ reading # NoCall
    /\ reading.storage = self.storage
    /\ LET key == reading.key
           out == GetItemOutcome(reading.seen, key, now)
           evicts == HasKey(reading.seen, key) /\ ~HasKey(out.store, key)
       IN  /\ WriteBackend(self, IF evicts THEN Evict(Backend(self), key, reading.seen)
                                 ELSE Backend(self))
           /\ last' = ReadCall("GetItem", self, key, out.ret, out.throws)
           /\ fresh' = IF fresh # NoCall /\ key \in KeysOf(fresh) THEN NoCall ELSE fresh
    /\ reading' = NoCall
    /\ UNCHANGED <<browser, now, DefaultExpiration, api, cleared>>

(***************************************************************************)
(* StorageAPI.Contains(key)                                                *)
(***************************************************************************)
\* a Contains that applies the expiration as GetItem does
ContainsUnexpired(store, key) ==
    /\ HasKey(store, key)
    /\ LET parsed == JSONParse(store[key]) IN ~(parsed.ok /\ Expired(parsed.v, now))

\* storage.getItem(key) !== null
ContainsResult(store, key) == HasKey(store, key)

Contains(self, key) ==
    /\ last' = ReadCall("Contains", self, key,
                        Bool(ContainsResult(Backend(self), key)), "none")
    /\ UNCHANGED <<browser, localStorage, sessionStorage, now, DefaultExpiration,
                   api, fresh, cleared, reading>>

(***************************************************************************)
(* StorageAPI.Clear()                                                      *)
(***************************************************************************)
\* a Clear that removes the expiring entries only
ClearExpiringOnly(store) ==
    LET kept == {k \in DOMAIN store :
                   LET parsed == JSONParse(store[k]) IN
                   ~(parsed.ok /\ Truthy(GetPropOpt(parsed.v, "expires")))}
    IN  [k \in kept |-> store[k]]

\* storage.clear()
ClearStore(store) == EmptyStore

Clear(self) ==
    /\ WriteBackend(self, ClearStore(Backend(self)))
    /\ last' = ReadCall("Clear", self, "", Bool(TRUE), "none")
    /\ fresh' = NoCall
    /\ cleared' = cleared \cup DOMAIN Backend(self)
    /\ UNCHANGED <<browser, now, DefaultExpiration, api, reading>>

(***************************************************************************)
(* The clock.                                                              *)
(***************************************************************************)
Tick ==
    /\ now < MaxTime
    /\ now' = now + 1
    /\ UNCHANGED <<browser, localStorage, sessionStorage, DefaultExpiration, api,
                   last, fresh, cleared, reading>>

\* the clock passes the expiresIn of DefaultExpiration at once: an entry
\* written now with that expiresIn is expired afterwards
Elapse ==
    /\ now <= MaxWeeks * WeekExpiresIn
    /\ now' = now + WeekExpiresIn + 1
    /\ UNCHANGED <<browser, localStorage, sessionStorage, DefaultExpiration, api,
                   last, fresh, cleared, reading>>

(***************************************************************************)
(* SaveUserSession(user, rememberMe)                                       *)
(***************************************************************************)
\* generateRandomToken(length): some string of that length
GenerateRandomToken(length) == {tok \in TokenPool : Len(tok) = length}

\* both backends, as the calls made by SaveUserSession see them
Stores(local, session) == [local |-> local, session |-> session]
\* self.SaveItemWithExpiration(key, { value, expires }) on the pair of backends
WithExpiration(st, self, key, value, expires) ==
    IF self.storage = "local"
    THEN [st EXCEPT !.local = SaveItemWithExpirationStore(@, key, value,
                                  expires.creationDate, expires.expiresIn)]
    ELSE [st EXCEPT !.session = SaveItemWithExpirationStore(@, key, value,
                                  expires.creationDate, expires.expiresIn)]
\* a SaveItem that writes the entry to the durable backend as well
WithItemOnBoth(st, self, key, value) ==
    [local |-> SaveItemStore(st.local, key, value),
     session |-> SaveItemStore(st.session, key, value)]

\* self.SaveItem(key, { value }) on the pair of backends
WithItem(st, self, key, value) ==
    IF self.storage = "local"
    THEN [st EXCEPT !.local = SaveItemStore(@, key, value)]
    ELSE [st EXCEPT !.session = SaveItemStore(@, key, value)]

\* `${user.firstName} ${user.lastName}`
FullName(user) == user.firstName \o " " \o user.lastName

SaveUserSessionStores(st, user, rememberMe, tokens) ==
    LET storage == Constructor("undefined")
        s1 == WithExpiration(st, storage, "name", Str(FullName(user)), DefaultExpiration)
        s2 == WithExpiration(s1, storage, "username", Str(user.username), DefaultExpiration)
        s3 == WithExpiration(s2, storage, "token", Str(user.token), DefaultExpiration)
        s4 == WithExpiration(s3, storage, "selector", Str(tokens[1]), DefaultExpiration)
    IN  IF rememberMe
        THEN WithExpiration(s4, storage, "validator", Str(tokens[2]), DefaultExpiration)
        ELSE WithItem(s4, Constructor("session"), "validator", Str(tokens[2]))

SaveUserSession(user, rememberMe, tokens) ==
    LET st == SaveUserSessionStores(Stores(localStorage, sessionStorage),
                                    user, rememberMe, tokens) IN
    /\ localStorage' = st.local
    /\ sessionStorage' = st.session
    /\ last' = [op |-> "SaveUserSession", user |-> user, rememberMe |-> rememberMe,
                tokens |-> tokens, at |-> now]
    /\ fresh' = last'
    /\ cleared' = cleared \ SessionKeys
    /\ UNCHANGED <<browser, now, DefaultExpiration, api, reading>>

DoSaveItemWithExpiration ==
    \E key \in SaveKeys, value \in ExpiringValues,
       creationDate \in (now - MaxAge)..(now + MaxAhead), expiresIn \in 0..MaxExpiresIn :
        SaveItemWithExpiration(api, key, value, creationDate, expiresIn)
DoSaveItem == \E key \in SaveKeys, value \in PlainValues : SaveItem(api, key, value)
DoGetItem == \E key \in Keys : GetItem(api, key)
DoContains == \E key \in Keys : Contains(api, key)
DoClear == Clear(api)

Next ==
    \/ DoSaveItemWithExpiration
    \/ DoSaveItem
    \/ DoGetItem
    \/ DoContains
    \/ DoClear
    \/ Tick

Spec == Init /\ [][Next]_vars

(***************************************************************************)
(* The session scenarios: SaveUserSession on a fresh profile, reads of the *)
(* session fields through a wrapper, and a clock that passes expirations.  *)
(***************************************************************************)
DoSaveUserSession ==
    \E user \in Users, rememberMe \in BOOLEAN,
       selector \in GenerateRandomToken(12), validator \in GenerateRandomToken(32) :
        SaveUserSession(user, rememberMe, <<selector, validator>>)
DoGetSessionItem == \E key \in SessionKeys : GetItem(api, key)

InitSession ==
    /\ Init
    /\ localStorage = EmptyStore
    /\ sessionStorage = EmptyStore

NextSession ==
    \/ DoSaveUserSession
    \/ DoGetSessionItem
    \/ Elapse

SpecSession == InitSession /\ [][NextSession]_vars

\* an earlier page has left text under "y" that is not JSON
InitLeftOver ==
    /\ browser \in BOOLEAN
    /\ localStorage \in MalformedStores
    /\ sessionStorage \in MalformedStores
    /\ now = 1
    /\ DefaultExpiration = [creationDate |-> now, expiresIn |-> WeekExpiresIn]
    /\ api \in {Constructor(st) : st \in {"undefined"} \cup StorageTypes}
    /\ last = NoCall
    /\ fresh = NoCall
    /\ cleared = {}
    /\ reading = NoCall

NextLeftOver ==
    \/ DoGetItem
    \/ DoContains
    \/ DoClear
    \/ Tick

SpecLeftOver == InitLeftOver /\ [][NextLeftOver]_vars

\* the wrapper of this context reads in two steps, while the wrapper of
\* another context, bound to the durable backend, saves entries created now
DoGetItemRead == \E key \in Keys : GetItemRead(api, key)
DoGetItemFinish == GetItemFinish(api)
DoOtherContextSave ==
    \E key \in Keys, value \in ExpiringValues, expiresIn \in 0..MaxExpiresIn :
        SaveItemWithExpiration(Constructor("local"), key, value, now, expiresIn)

\* a browsing context whose session-scoped backend is still empty
InitRace ==
    /\ Init
    /\ browser
    /\ sessionStorage = EmptyStore

NextRace ==
    \/ DoGetItemRead
    \/ DoGetItemFinish
    \/ DoOtherContextSave

SpecRace == InitRace /\ [][NextRace]_vars

(***************************************************************************)
(* Properties.                                                             *)
(***************************************************************************)
NotFound == Null
BackendOf(storageType) == IF storageType = "local" THEN localStorage ELSE sessionStorage
\* the record JSON.parse yields for the text stored under key
Decoded(store, key) == JSONParse(store[key])
\* store holds under key the encoding of { value, expires }
HoldsExpiring(store, key, value, expires) ==
    /\ HasKey(store, key)
    /\ Decoded(store, key).ok
    /\ Decoded(store, key).v = Obj(<<Member("value", value), Member("expires", Num(expires))>>)

\* C1: in a browsing context, SaveItem(k, v) immediately followed by
\* GetItem(k) on the same wrapper returns v unchanged, for every plain value v.
C1_PlainRoundTrip ==
    (/\ browser
     /\ last.op = "GetItem"
     /\ last.immediate
     /\ last.after.op = "SaveItem")
    => (last.throws = "none" /\ last.ret = last.after.value)

\* C2: after SaveItemWithExpiration(k, v, {creationDate, expiresIn}) the record
\* stored under k has expires = creationDate + expiresIn * 1000.
C2_ExpiresInSeconds ==
    (browser /\ last.op = "SaveItemWithExpiration")
    => HoldsExpiring(BackendOf(last.storage), last.key, last.value,
                     last.creationDate + last.expiresIn * 1000)

\* C3: after SaveItemWithExpiration(k, v, {creationDate: T, expiresIn: N})
\* performed at instant T with no later write to k, GetItem(k) at an instant t
\* with T <= t <= T + N seconds returns v, and at t > T + N seconds it returns
\* "not found" and Contains(k) is false afterwards.
C3_Lifetime ==
    (/\ browser
     /\ last.op = "GetItem"
     /\ last.after # NoCall
     /\ last.after.op = "SaveItemWithExpiration"
     /\ last.after.at = last.after.creationDate)
    => LET T == last.after.creationDate
           N == last.after.expiresIn
       IN  /\ last.at <= T + N * 1000
                => (last.throws = "none" /\ last.ret = last.after.value)
           /\ last.at > T + N * 1000
                => /\ last.throws = "none" /\ last.ret = NotFound
                   /\ ~ContainsResult(BackendOf(last.storage), last.key)

\* the text under key decodes to a record whose expires is an integer
CarriesExpiry(store, key) ==
    /\ HasKey(store, key)
    /\ store[key] # <<>>
    /\ Decoded(store, key).ok
    /\ GetPropOpt(Decoded(store, key).v, "expires").t = "number"
ExpiryOf(store, key) == GetPropOpt(Decoded(store, key).v, "expires").n

\* C4: a GetItem(k) that finds under k a record whose expires (any integer, 0
\* and negative ones included) is strictly earlier than the current instant
\* returns "not found" and removes k, so that Contains(k) is false afterwards.
C4_LazyEviction ==
    [][\A key \in Keys :
         (/\ browser
          /\ GetItem(api, key)
          /\ CarriesExpiry(Backend(api), key)
          /\ ExpiryOf(Backend(api), key) < now)
         => (/\ last'.throws = "none" /\ last'.ret = NotFound
             /\ ~ContainsResult(Backend(api)', key))]_vars

SessionValue(call, key) ==
    CASE key = "name" -> Str(call.user.firstName \o " " \o call.user.lastName)
      [] key = "username" -> Str(call.user.username)
      [] key = "token" -> Str(call.user.token)
      [] key = "selector" -> Str(call.tokens[1])
      [] key = "validator" -> Str(call.tokens[2])

\* C6: after SaveUserSession(user, true) at instant t, GetItem of each of the
\* five keys on the durable backend returns its value at every instant up to
\* one week (604800 seconds) after t.
C6_OneWeekFromCall ==
    (/\ browser
     /\ last.op = "GetItem"
     /\ last.storage = "local"
     /\ last.after # NoCall
     /\ last.after.op = "SaveUserSession"
     /\ last.after.rememberMe
     /\ last.at <= last.after.at + WeekExpiresIn * 1000)
    => (last.throws = "none" /\ last.ret = SessionValue(last.after, last.key))

\* the value of the record stored under key
StoredValue(store, key) == GetPropOpt(Decoded(store, key).v, "value")

\* C7: in a browsing context SaveUserSession(user, true) leaves the durable
\* backend holding name = firstName + " " + lastName, username, the user's own
\* token, the generated 12-character selector and the generated 32-character
\* validator, and leaves the session-scoped backend as it was.
C7_RememberedSession ==
    [][(/\ browser
        /\ last' # last
        /\ last'.op = "SaveUserSession"
        /\ last'.rememberMe)
       => /\ \A key \in SessionKeys :
                HasKey(localStorage', key) /\ Decoded(localStorage', key).ok
          /\ StoredValue(localStorage', "name")
               = Str(last'.user.firstName \o " " \o last'.user.lastName)
          /\ StoredValue(localStorage', "username") = Str(last'.user.username)
          /\ StoredValue(localStorage', "token") = Str(last'.user.token)
          /\ StoredValue(localStorage', "selector") = Str(last'.tokens[1])
          /\ Len(last'.tokens[1]) = 12
          /\ StoredValue(localStorage', "validator") = Str(last'.tokens[2])
          /\ Len(last'.tokens[2]) = 32
          /\ sessionStorage' = sessionStorage]_vars

C7_Witness ==
    /\ browser
    /\ last.op = "SaveUserSession"
    /\ last.rememberMe
    /\ last.user.firstName = "Ada"
    /\ StoredValue(localStorage, "name") = Str("Ada Lovelace")
    /\ StoredValue(localStorage, "token") = Str("tok123")
    /\ StoredValue(localStorage, "validator") = Str(last.tokens[2])
    /\ sessionStorage = EmptyStore

\* C8: SaveUserSession(user, false) writes validator to the session-scoped
\* backend as the encoding of the record { value: <32-character token> } with
\* no expires field, and writes name, username, token and selector to the
\* durable backend as expiring entries.
C8_SessionValidator ==
    (browser /\ last.op = "SaveUserSession" /\ ~last.rememberMe)
    => /\ HasKey(sessionStorage, "validator")
       /\ sessionStorage["validator"]
            = Stringify(Obj(<<Member("value", Str(last.tokens[2]))>>))
       /\ \A key \in SessionKeys \ {"validator"} :
            /\ HasKey(localStorage, key)
            /\ Decoded(localStorage, key).ok
            /\ StoredValue(localStorage, key) = SessionValue(last, key)
            /\ GetPropOpt(Decoded(localStorage, key).v, "expires").t = "number"

\* C9: in a browsing context Contains(k) returns true after a SaveItem or
\* SaveItemWithExpiration to k, whether or not the entry's expiration instant
\* has elapsed, as long as no GetItem(k) and no Clear has run since the save;
\* and Contains changes neither backend.
C9_ContainsIgnoresExpiration ==
    [][last'.op = "Contains"
         => /\ localStorage' = localStorage
            /\ sessionStorage' = sessionStorage
            /\ (browser /\ last'.after # NoCall) => last'.ret = Bool(TRUE)]_vars

\* a Contains that reports an entry whose expiration instant has elapsed
C9_Witness ==
    /\ browser
    /\ last.op = "Contains"
    /\ last.after # NoCall
    /\ last.after.op = "SaveItemWithExpiration"
    /\ last.after.creationDate + last.after.expiresIn * 1000 < last.at
    /\ last.after.creationDate + last.after.expiresIn # 0
    /\ last.ret = Bool(TRUE)
    /\ HasKey(BackendOf(last.storage), last.key)

\* C10: Clear returns true and leaves the selected backend empty; for every
\* key it removed, Contains returns false and GetItem returns "not found"
\* until the key is saved again.
C10_Clear ==
    /\ last.op = "Clear" => (last.ret = Bool(TRUE) /\ BackendOf(last.storage) = EmptyStore)
    /\ (last.op = "Contains" /\ last.wasCleared) => last.ret = Bool(FALSE)
    /\ (last.op = "GetItem" /\ last.wasCleared)
         => (last.throws = "none" /\ last.ret = NotFound)

C10_Witness ==
    /\ last.op = "GetItem"
    /\ last.wasCleared
    /\ last.ret = NotFound
    /\ cleared = Keys
    /\ BackendOf(last.storage) = EmptyStore

\* C11: an entry written by SaveItem(k, v) never expires: whatever the clock
\* shows and however many GetItem(k) / Contains(k) calls were made, as long as
\* no Clear and no later save to k has run, the entry is still present, also
\* when v is an object with a numeric `expires` (that GetItem(k) then returns
\* v is the round trip of C1; here only the presence is stated).
C11_PlainNeverExpires ==
    /\ (browser /\ fresh.op = "SaveItem")
         => HasKey(BackendOf(fresh.storage), fresh.key)
    /\ (browser /\ last.op = "GetItem" /\ last.after.op = "SaveItem")
         => HasKey(BackendOf(last.storage), last.key)

\* the backend a wrapper selects, after the step
BackendAfter(self) == IF self.storage = "local" THEN localStorage' ELSE sessionStorage'

\* C12: outside a browsing context SaveItem and SaveItemWithExpiration write to
\* neither backend and GetItem returns "not found" and removes nothing, while
\* Contains still answers from the backend and Clear still empties it.
C12_EnvironmentGuard ==
    [][(~browser /\ last' # last)
         => /\ last'.op \in {"SaveItem", "SaveItemWithExpiration"}
                 => UNCHANGED <<localStorage, sessionStorage>>
            /\ last'.op = "GetItem"
                 => /\ last'.ret = NotFound
                    /\ last'.throws = "none"
                    /\ UNCHANGED <<localStorage, sessionStorage>>
            /\ last'.op = "Contains"
                 => last'.ret = Bool(HasKey(Backend(api), last'.key))
            /\ last'.op = "Clear" => BackendAfter(api) = EmptyStore]_vars

\* outside a browsing context, GetItem reported "not found" for a stored
\* record whose expiration has passed, and left it in place
C12_Witness ==
    /\ ~browser
    /\ last.op = "GetItem"
    /\ last.ret = NotFound
    /\ HasKey(BackendOf(last.storage), last.key)
    /\ Decoded(BackendOf(last.storage), last.key).ok
    /\ Expired(Decoded(BackendOf(last.storage), last.key).v, last.at)

\* C13: GetItem on a key the selected backend does not hold, because it was
\* never written or because a Clear removed it, returns "not found", does not
\* throw and changes neither backend.
C13_AbsentKey ==
    [][(last' # last /\ last'.op = "GetItem" /\ ~HasKey(Backend(api), last'.key))
         => /\ last'.ret = NotFound
            /\ last'.throws = "none"
            /\ UNCHANGED <<localStorage, sessionStorage>>]_vars

\* in a browsing context, GetItem reported "not found" for a key that no call
\* has written and no Clear has removed
C13_Witness ==
    /\ browser
    /\ last.op = "GetItem"
    /\ last.key = "x"
    /\ ~last.wasCleared
    /\ last.after = NoCall
    /\ last.ret = NotFound
    /\ last.throws = "none"
    /\ ~HasKey(BackendOf(last.storage), last.key)
    /\ HasKey(BackendOf(last.storage), "y")

\* C14: a wrapper constructed without a selector targets the durable backend,
\* no step changes a wrapper's selector, and every step made through a wrapper
\* leaves the backend it did not select unchanged.
C14_BackendIsolation ==
    [][/\ Constructor("undefined").storage = "local"
       /\ api' = api
       /\ api.storage = "local" => sessionStorage' = sessionStorage
       /\ api.storage = "session" => localStorage' = localStorage]_vars

\* a wrapper on the durable backend emptied it with Clear while the
\* session-scoped backend kept its record
C14_Witness ==
    /\ api.storage = "local"
    /\ last.op = "Clear"
    /\ "y" \in cleared
    /\ localStorage = EmptyStore
    /\ HasKey(sessionStorage, "y")

\* C15: a GetItem(k) step changes the selected backend only by removing k, and
\* only when the record stored under k carries an expiration earlier than the
\* current instant; every other key keeps its text, the other backend is
\* untouched, and a step that only advances the clock changes neither backend.
C15_GetFrame ==
    [][/\ (last' # last /\ last'.op = "GetItem")
            => LET store == Backend(api)
                   key == last'.key
               IN  /\ \A k \in (DOMAIN store \cup DOMAIN BackendAfter(api)) \ {key} :
                         /\ HasKey(store, k) /\ HasKey(BackendAfter(api), k)
                         /\ BackendAfter(api)[k] = store[k]
                   /\ BackendAfter(api) # store
                         => /\ BackendAfter(api) = RemoveItem(store, key)
                            /\ CarriesExpiry(store, key)
                            /\ ExpiryOf(store, key) < now
                   /\ api.storage = "local" => sessionStorage' = sessionStorage
                   /\ api.storage = "session" => localStorage' = localStorage
       /\ now' # now => UNCHANGED <<localStorage, sessionStorage>>]_vars

\* the clock passed the expiration of the entry under "x" while it stayed in
\* the backend, then GetItem("x") removed it and left the record under "y"
C15_Witness ==
    /\ browser
    /\ last.op = "GetItem"
    /\ last.key = "x"
    /\ last.after.op = "SaveItemWithExpiration"
    /\ last.after.at < last.at
    /\ last.ret = NotFound
    /\ ~HasKey(BackendOf(last.storage), "x")
    /\ HasKey(BackendOf(last.storage), "y")

C17_ReadThenEvict ==
    [][(/\ reading # NoCall
        /\ reading' = NoCall
        /\ HasKey(reading.seen, reading.key)
        /\ JSONParse(reading.seen[reading.key]).ok
        /\ Expired(JSONParse(reading.seen[reading.key]).v, now))
       => ~HasKey(BackendAfter(api), reading.key)]_vars

\* GetItem("y") read an expired record, another context then saved under "y"
\* an entry that is not yet expired, and the GetItem deleted that entry
C17_Witness ==
    /\ api.storage = "local"
    /\ reading = NoCall
    /\ last.op = "GetItem"
    /\ last.key = "y"
    /\ last.ret = NotFound
    /\ last.immediate
    /\ last.after.op = "SaveItemWithExpiration"
    /\ last.after.storage = "local"
    /\ last.after.creationDate + last.after.expiresIn > last.at
    /\ ~HasKey(localStorage, "y")

\* C18: in a browsing context, GetItem(k) on a key whose stored text JSON.parse
\* rejects, the empty text included, throws the parsing failure and leaves
\* both backends unchanged.
C18_DecodeFailure ==
    [][(/\ browser
        /\ last' # last
        /\ last'.op = "GetItem"
        /\ HasKey(Backend(api), last'.key)
        /\ ~JSONParse(Backend(api)[last'.key]).ok)
       => /\ last'.throws = "SyntaxError"
          /\ UNCHANGED <<localStorage, sessionStorage>>]_vars

\* C19: SaveUserSession(user, false) neither writes nor removes the durable
\* backend's `validator` entry: what was there before the call (the validator
\* of an earlier remembered call, or nothing) is there afterwards, next to
\* the selector this call generated, while the session-scoped backend holds
\* the validator this call generated.
C19_StaleValidator ==
    [][(/\ last' # last
        /\ last'.op = "SaveUserSession"
        /\ ~last'.rememberMe)
       => /\ HasKey(localStorage', "validator") = HasKey(localStorage, "validator")
          /\ HasKey(localStorage, "validator")
               => localStorage'["validator"] = localStorage["validator"]
          /\ browser
               => /\ StoredValue(localStorage', "selector") = Str(last'.tokens[1])
                  /\ HasKey(sessionStorage', "validator")
                  /\ JSONParse(sessionStorage'["validator"]).v = Str(last'.tokens[2])]_vars

\* after a remembered call and then a non-remembered one, the durable backend
\* holds a validator that is not the one of the last call, next to the
\* selector of the last call
C19_Witness ==
    /\ browser
    /\ last.op = "SaveUserSession"
    /\ ~last.rememberMe
    /\ HasKey(localStorage, "validator")
    /\ StoredValue(localStorage, "validator").t = "string"
    /\ StoredValue(localStorage, "validator") # Str(last.tokens[2])
    /\ StoredValue(localStorage, "selector") = Str(last.tokens[1])
    /\ HasKey(sessionStorage, "validator")
    /\ JSONParse(sessionStorage["validator"]).v = Str(last.tokens[2])

\* C20 as stated: once GetItem(k) has returned "not found", a later
\* Contains(k) on the same backend, with no save in between, reports the key
\* absent (records with expires = 0, which GetItem never treats as expired,
\* are set aside: they are the subject of C4).
C20_Original ==
    [][(/\ last.op = "GetItem"
        /\ ~(CarriesExpiry(Backend(api), last.key) /\ ExpiryOf(Backend(api), last.key) = 0)
        /\ last.throws = "none"
        /\ last.ret = NotFound
        /\ last'.op = "Contains"
        /\ last'.key = last.key)
       => last'.ret = Bool(FALSE)]_vars

\* C20: the clock never moves backwards and, in a browsing context, a
\* GetItem(k) that finds k absent or finds under k a record whose expiration
\* has passed returns "not found" and leaves k absent; an absent key becomes
\* present again only by a save to that key, and until then Contains(k)
\* returns false and GetItem(k) "not found".
C20_ExpiryPermanent ==
    [][/\ now' >= now
       /\ (browser /\ last' # last /\ last'.op = "GetItem"
           /\ (\/ ~HasKey(Backend(api), last'.key)
               \/ (/\ CarriesExpiry(Backend(api), last'.key)
                   /\ Expired(Decoded(Backend(api), last'.key).v, now))))
            => /\ last'.ret = NotFound
               /\ last'.throws = "none"
               /\ ~HasKey(BackendAfter(api), last'.key)
       /\ \A k \in Keys :
            (~HasKey(Backend(api), k) /\ HasKey(BackendAfter(api), k))
              => /\ last'.op \in {"SaveItem", "SaveItemWithExpiration"}
                 /\ last'.key = k
       /\ (last' # last /\ last'.op = "Contains" /\ ~HasKey(Backend(api), last'.key))
            => last'.ret = Bool(FALSE)]_vars

\* GetItem("x") found the entry holding 42 expired, reported "not found" and
\* removed it
C20_Witness ==
    /\ browser
    /\ last.op = "GetItem"
    /\ last.key = "x"
    /\ last.after.op = "SaveItemWithExpiration"
    /\ last.after.value = Num(42)
    /\ last.throws = "none"
    /\ last.ret = NotFound
    /\ ~HasKey(BackendOf(last.storage), "x")
====
